---- MODULE Spec2Model ----
(***************************************************************************)
(* Moving-least-squares image deformation (src/img_utils_pytorch.py).      *)
(*                                                                         *)
(* One call of mls_deformation is a straight-line tensor program; the      *)
(* model follows it statement by statement.  Real numbers are exact:       *)
(* a rational is a normalised pair <<num, den>> with den > 0, a complex    *)
(* number a pair <<re, im>> of rationals, and the only irrational the      *)
(* program produces, the square root taken by torch.abs in rigid_solver,   *)
(* is kept symbolically (a value c + x/sqrt(n)).  Division 0/0 yields NaN  *)
(* as IEEE arithmetic does, and torch.linalg.inv of a singular matrix      *)
(* raises.  Rounding error of the floating-point types is not modelled.    *)
(***************************************************************************)
EXTENDS Integers, Sequences, FiniteSets

VARIABLES pc, arg, p, q, w, pstar, qstar, transformers, result

vars == <<pc, arg, p, q, w, pstar, qstar, transformers, result>>

\* ------------------------------------------------------------ bounds
MaxCtrls == 3
MaxCoord == 1
MaxRows == 2
MaxCols == 2
MaxAlpha == 2

\* eps is drawn from {1/k : k \in 1..MaxEpsDen}
MaxEpsDen == 1

\* float NaN converted by .long(): the value depends on the build
\* (the smallest int64 on x86 CPUs, 0 on ARM CPUs and on CUDA).  TLC's integers
\* are 32 bits wide, so the smallest int64 is stood for by a large negative.
LongMin == -2147483647

NanToLong == {LongMin, 0}

\* ------------------------------------------------------------ rationals
RECURSIVE GCD(_, _)
GCD(a, b) == IF b = 0 THEN a ELSE GCD(b, a % b)

IAbs(a) == IF a < 0 THEN -a ELSE a

Rat(n, d) ==
    LET g == GCD(IAbs(n), IAbs(d))
        s == IF d < 0 THEN -1 ELSE 1
    IN  <<(s * n) \div g, (s * d) \div g>>

R0 == <<0, 1>>
R1 == <<1, 1>>
RInt(k) == <<k, 1>>

RAdd(x, y) ==
    LET g == GCD(x[2], y[2])
    IN  Rat(x[1] * (y[2] \div g) + y[1] * (x[2] \div g), x[2] * (y[2] \div g))

RNeg(x) == <<-x[1], x[2]>>

RSub(x, y) == RAdd(x, RNeg(y))

RMul(x, y) ==
    LET g1 == GCD(IAbs(x[1]), y[2])
        g2 == GCD(IAbs(y[1]), x[2])
    IN  <<(x[1] \div g1) * (y[1] \div g2), (x[2] \div g2) * (y[2] \div g1)>>

\* 1/x, x # 0
RInv(x) == IF x[1] < 0 THEN <<-x[2], -x[1]>> ELSE <<x[2], x[1]>>

RDiv(x, y) == RMul(x, RInv(y))

RLeq(x, y) == RSub(x, y)[1] <= 0

RLt(x, y) == RSub(x, y)[1] < 0

RECURSIVE RPow(_, _)
RPow(x, k) == IF k = 0 THEN R1 ELSE RMul(x, RPow(x, k - 1))

RECURSIVE RSum(_)
RSum(s) == IF s = <<>> THEN R0 ELSE RAdd(Head(s), RSum(Tail(s)))

\* (a sequence built as [j \in 1..n |-> e] \o <<>> is the same sequence, held
\* by TLC as a tuple of values instead of an expression evaluated at each use)

\* ------------------------------------------------------------ complex numbers
C0 == <<R0, R0>>

CAdd(a, b) == <<RAdd(a[1], b[1]), RAdd(a[2], b[2])>>

CSub(a, b) == <<RSub(a[1], b[1]), RSub(a[2], b[2])>>

CMul(a, b) ==
    <<RSub(RMul(a[1], b[1]), RMul(a[2], b[2])),
      RAdd(RMul(a[1], b[2]), RMul(a[2], b[1]))>>

CConj(a) == <<a[1], RNeg(a[2])>>

CScale(r, a) == <<RMul(r, a[1]), RMul(r, a[2])>>

\* torch.abs(z) ** 2
CAbs2(a) == RAdd(RMul(a[1], a[1]), RMul(a[2], a[2]))

RECURSIVE CSum(_)
CSum(s) == IF s = <<>> THEN C0 ELSE CAdd(Head(s), CSum(Tail(s)))

\* torch.view_as_complex of an [n, 2] tensor of grid coordinates
view_as_complex(pts) ==
    [j \in 1..Len(pts) |-> <<RInt(pts[j][1]), RInt(pts[j][2])>>] \o <<>>

\* ------------------------------------------------------------ the grid
\* vx holds the row position of each cell, vy its column position;
\* _v = torch.complex(vx, vy)
Pixels(rows, cols) == (0..(rows - 1)) \X (0..(cols - 1))

V(px) == <<RInt(px[1]), RInt(px[2])>>

grow == arg.rows
gcol == arg.cols
ctrls == Len(p)

None == <<>>

\* ------------------------------------------------------------ values
\* A real scalar of the float tensors: NaN, or the number c + x/sqrt(n) with
\* c, x, n rational and n > 0 (x = 0, n = 1 for a rational).
SNaN == [nan |-> TRUE, c |-> R0, x |-> R0, n |-> R1]

SRat(r) == [nan |-> FALSE, c |-> r, x |-> R0, n |-> R1]

\* s >= k and s <= k for a non-NaN scalar s and a rational k
SGeq(s, k) ==
    LET d == RSub(k, s.c)
        x2 == RMul(s.x, s.x)
        d2n == RMul(RMul(d, d), s.n)
    IN  IF s.x[1] >= 0 THEN d[1] <= 0 \/ RLeq(d2n, x2)
                       ELSE d[1] <= 0 /\ RLeq(x2, d2n)

SLeq(s, k) ==
    LET d == RSub(k, s.c)
        x2 == RMul(s.x, s.x)
        d2n == RMul(RMul(d, d), s.n)
    IN  IF s.x[1] <= 0 THEN d[1] >= 0 \/ RLeq(d2n, x2)
                       ELSE d[1] >= 0 /\ RLeq(x2, d2n)

\* a complex value of _transformers: NaN, or c + x/sqrt(n) with c, x complex
CNaN == [nan |-> TRUE, c |-> C0, x |-> C0, n |-> R1]

CVal(c) == [nan |-> FALSE, c |-> c, x |-> C0, n |-> R1]

\* torch.view_as_real: the pair (real part, imaginary part)
view_as_real(z) ==
    IF z.nan THEN <<SNaN, SNaN>>
    ELSE <<[nan |-> FALSE, c |-> z.c[1], x |-> z.x[1], n |-> z.n],
           [nan |-> FALSE, c |-> z.c[2], x |-> z.x[2], n |-> z.n]>>

\* ------------------------------------------------------------ weights, centroids
\* line 70: w = 1 / (torch.abs(_p - _v) ** 2 + eps) ** alpha, at one pixel
RawWeights(cp, v, alpha, eps) ==
    [j \in 1..Len(cp) |-> RInv(RPow(RAdd(CAbs2(CSub(cp[j], v)), eps), alpha))] \o <<>>

\* the weights left as line 70 computes them
Unnormalized(raw) == raw

\* line 71: w /= torch.sum(w, axis=2, keepdims=True), at one pixel
Normalize(raw) ==
    LET total == RSum(raw)
    IN  [j \in 1..Len(raw) |-> RDiv(raw[j], total)] \o <<>>

WeightField(cp, alpha, eps, rows, cols) ==
    [px \in Pixels(rows, cols) |-> Normalize(RawWeights(cp, V(px), alpha, eps))]

\* lines 73 and 78: torch.sum(w * _p, axis=2, keepdims=True), at one pixel
Centroid(wpx, cp) == CSum([j \in 1..Len(wpx) |-> CScale(wpx[j], cp[j])])

\* ------------------------------------------------------------ solvers
\* _p - _pstar for every control point
RECURSIVE Hat(_, _)
Hat(cp, star) ==
    IF cp = <<>> THEN <<>> ELSE <<CSub(Head(cp), star)>> \o Hat(Tail(cp), star)

\* sum over the control points of x[j][a] * w[j] * y[j][b]
Cross(wpx, x, y, a, b) ==
    RSum([j \in 1..Len(wpx) |-> RMul(RMul(x[j][a], wpx[j]), y[j][b])])

\* pTwp with the products of different components left out
PTwPDiagonal(wpx, phat) ==
    <<<<Cross(wpx, phat, phat, 1, 1), R0>>,
      <<R0, Cross(wpx, phat, phat, 2, 2)>>>>

\* line 102: pTwp = torch.sum(phatT * w * phat, axis=2), a 2x2 matrix
PTwP(wpx, phat) ==
    <<<<Cross(wpx, phat, phat, 1, 1), Cross(wpx, phat, phat, 1, 2)>>,
      <<Cross(wpx, phat, phat, 2, 1), Cross(wpx, phat, phat, 2, 2)>>>>

\* line 103: pTwq = torch.sum(phatT * w * (q - qstar), axis=2), a 2x2 matrix
PTwQ(wpx, phat, qhat) ==
    <<<<Cross(wpx, phat, qhat, 1, 1), Cross(wpx, phat, qhat, 1, 2)>>,
      <<Cross(wpx, phat, qhat, 2, 1), Cross(wpx, phat, qhat, 2, 2)>>>>

Det(A) == RSub(RMul(A[1][1], A[2][2]), RMul(A[1][2], A[2][1]))

\* torch.linalg.inv of a non-singular 2x2 matrix
Inv(A) ==
    LET d == RInv(Det(A))
    IN  <<<<RMul(A[2][2], d), RNeg(RMul(A[1][2], d))>>,
          <<RNeg(RMul(A[2][1], d)), RMul(A[1][1], d)>>>>

\* a row vector times a 2x2 matrix
VecMat(u, A) ==
    <<RAdd(RMul(u[1], A[1][1]), RMul(u[2], A[2][1])),
      RAdd(RMul(u[1], A[1][2]), RMul(u[2], A[2][2]))>>

MatMul(A, B) == <<VecMat(A[1], B), VecMat(A[2], B)>>

\* line 104: torch.linalg.inv raises on a singular matrix of the batch
AffineSingular(wpx, sp, spstar) == Det(PTwP(wpx, Hat(sp, spstar))) = R0

\* lines 100-105, at one pixel whose pTwp is invertible
affine_solver(wpx, sq, sqstar, sp, spstar, v) ==
    LET phat == Hat(sp, spstar)
        M == MatMul(Inv(PTwP(wpx, phat)), PTwQ(wpx, phat, Hat(sq, sqstar)))
    IN  CVal(CAdd(VecMat(CSub(v, spstar), M), sqstar))

\* lines 109 and 115: _M = torch.sum(torch.conj(_p - _pstar) * w * (_q - _qstar))
Mnum(wpx, sq, sqstar, sp, spstar) ==
    CSum([j \in 1..Len(wpx) |->
        CMul(CScale(wpx[j], CConj(CSub(sp[j], spstar))), CSub(sq[j], sqstar))])

\* line 110: mu = torch.sum(w * torch.abs(_p - _pstar) ** 2)
Mu(wpx, sp, spstar) ==
    RSum([j \in 1..Len(wpx) |-> RMul(wpx[j], CAbs2(CSub(sp[j], spstar)))])

\* line 111.  mu = 0 forces _M = 0 (every phat is 0), and 0/0 is NaN.
similarity_solver(wpx, sq, sqstar, sp, spstar, v) ==
    LET M == Mnum(wpx, sq, sqstar, sp, spstar)
        mu == Mu(wpx, sp, spstar)
    IN  IF mu = R0 THEN CNaN
        ELSE CVal(CAdd(CMul(CSub(v, spstar), CScale(RInv(mu), M)), sqstar))

\* the unit complex number z / |z| of z # 0, kept as x/sqrt(n): x is z scaled
\* by a positive rational to coprime integer components and n = |x|^2
Unit(z) ==
    LET l == (z[1][2] * z[2][2]) \div GCD(z[1][2], z[2][2])
        a == z[1][1] * (l \div z[1][2])
        b == z[2][1] * (l \div z[2][2])
        g == GCD(IAbs(a), IAbs(b))
        x == <<RInt(a \div g), RInt(b \div g)>>
    IN  [x |-> x, n |-> CAbs2(x)]

\* the rigid solver dividing by mu as the similarity solver does
rigid_scaled(wpx, sq, sqstar, sp, spstar, v) ==
    similarity_solver(wpx, sq, sqstar, sp, spstar, v)

\* line 116.  torch.abs(_M) is sqrt(|_M|^2); _M = 0 gives 0/0, NaN.
rigid_solver(wpx, sq, sqstar, sp, spstar, v) ==
    LET M == Mnum(wpx, sq, sqstar, sp, spstar)
    IN  IF M = C0 THEN CNaN
        ELSE [nan |-> FALSE, c |-> sqstar, x |-> CMul(CSub(v, spstar), Unit(M).x),
              n |-> Unit(M).n]

\* ------------------------------------------------------------ clamp, long
\* line 85: torch.clamp(x, min, max) = min(max(x, min), max); NaN stays NaN
ClampS(s, lo, hi) ==
    IF s.nan THEN s
    ELSE IF ~SGeq(s, RInt(lo)) THEN SRat(RInt(lo))
    ELSE IF ~SLeq(s, RInt(hi)) THEN SRat(RInt(hi))
    ELSE s

\* both components bounded by the row count
ClampSquare(t, rows, cols) == <<ClampS(t[1], 0, rows - 1), ClampS(t[2], 0, rows - 1)>>

\* min = [0], max = [grow - 1, gcol - 1], broadcast over the last axis
Clamp(t, rows, cols) == <<ClampS(t[1], 0, rows - 1), ClampS(t[2], 0, cols - 1)>>

\* an integer no smaller than |s|: |c| + |x|/sqrt(n) <= |c| + x^2/n + 1
Span(s) ==
    LET r == RAdd(<<IAbs(s.c[1]), s.c[2]>>, RDiv(RMul(s.x, s.x), s.n))
    IN  r[1] \div r[2] + 2

\* line 89: .long() of a finite value truncates toward zero
Trunc(s) ==
    IF SGeq(s, R0)
    THEN CHOOSE k \in 0..Span(s) : SGeq(s, RInt(k)) /\ ~SGeq(s, RInt(k + 1))
    ELSE -(CHOOSE k \in 0..Span(s) : SLeq(s, RInt(-k)) /\ ~SLeq(s, RInt(-k - 1)))

Long(s, nanv) == IF s.nan THEN nanv ELSE Trunc(s)

\* ------------------------------------------------------------ the call
Points == (0..MaxCoord) \X (0..MaxCoord)

PointSeqs == UNION {[1..n -> Points] : n \in 0..MaxCtrls}

Solvers == {"affine", "similarity", "rigid"}

\* Every sum over the control points is independent of their order, so the
\* calls modelled list their control points in one order only: the pairs
\* (p[j], q[j]) in non-decreasing order when p and q have the same length, and
\* each list in non-decreasing order when they do not.
Key(pt) == pt[1] * (MaxCoord + 1) + pt[2]

PairKey(ap, aq, j) == Key(ap[j]) * (MaxCoord + 1) * (MaxCoord + 1) + Key(aq[j])

Sorted(pts) == \A j \in 1..(Len(pts) - 1) : Key(pts[j]) <= Key(pts[j + 1])

Canonical(ap, aq) ==
    IF Len(ap) = Len(aq)
    THEN \A j \in 1..(Len(ap) - 1) : PairKey(ap, aq, j) <= PairKey(ap, aq, j + 1)
    ELSE Sorted(ap) /\ Sorted(aq)

Init ==
    /\ pc = "idle"
    /\ arg = None
    /\ p = None
    /\ q = None
    /\ w = None
    /\ pstar = None
    /\ qstar = None
    /\ transformers = None
    /\ result = None

\* lines 119-128: the three entry points bind solver and call mls_deformation
Call ==
    /\ pc = "idle"
    /\ \E s \in Solvers, ap \in PointSeqs, aq \in PointSeqs, al \in 1..MaxAlpha,
          k \in 1..MaxEpsDen, rows \in 1..MaxRows, cols \in 1..MaxCols :
          /\ Canonical(ap, aq)
          /\ arg' = [solver |-> s, p |-> ap, q |-> aq, alpha |-> al,
                     eps |-> Rat(1, k), rows |-> rows, cols |-> cols]
          /\ p' = view_as_complex(ap)
          /\ q' = view_as_complex(aq)
    /\ pc' = "called"
    /\ UNCHANGED <<w, pstar, qstar, transformers, result>>

\* the call without the exchange of line 57
NoSwap ==
    /\ pc = "called"
    /\ pc' = "swapped"
    /\ UNCHANGED <<arg, p, q, w, pstar, qstar, transformers, result>>

\* line 57: p, q = q, p
Swap ==
    /\ pc = "called"
    /\ p' = q
    /\ q' = p
    /\ pc' = "swapped"
    /\ UNCHANGED <<arg, w, pstar, qstar, transformers, result>>

\* lines 59-71
Weights ==
    /\ pc = "swapped"
    /\ w' = WeightField(p, arg.alpha, arg.eps, grow, gcol)
    /\ pc' = "weights"
    /\ UNCHANGED <<arg, p, q, pstar, qstar, transformers, result>>

\* line 73
PStar ==
    /\ pc = "weights"
    /\ pstar' = [px \in Pixels(grow, gcol) |-> Centroid(w[px], p)]
    /\ pc' = "pstar"
    /\ UNCHANGED <<arg, p, q, w, qstar, transformers, result>>

\* lines 76-78
QStar ==
    /\ pc = "pstar"
    /\ Len(q) = ctrls
    /\ qstar' = [px \in Pixels(grow, gcol) |-> Centroid(w[px], q)]
    /\ pc' = "qstar"
    /\ UNCHANGED <<arg, p, q, w, pstar, transformers, result>>

\* line 77: _q.reshape(1, 1, ctrls) raises when q has another length than p
QStarRaise ==
    /\ pc = "pstar"
    /\ Len(q) # ctrls
    /\ pc' = "raised"
    /\ UNCHANGED <<arg, p, q, w, pstar, qstar, transformers, result>>

\* line 81: solver(w, _q, _qstar, _p, _pstar, _v), solver bound by the entry point
Apply(s, wpx, sq, sqstar, sp, spstar, v) ==
    CASE s = "affine" -> affine_solver(wpx, sq, sqstar, sp, spstar, v)
      [] s = "similarity" -> similarity_solver(wpx, sq, sqstar, sp, spstar, v)
      [] s = "rigid" -> rigid_solver(wpx, sq, sqstar, sp, spstar, v)

\* lines 81-82, over the grid
Solved(s) ==
    [px \in Pixels(grow, gcol) |->
        view_as_real(Apply(s, w[px], q, qstar[px], p, pstar[px], V(px)))]

\* lines 81-82 with solver = affine_solver
SolveAffine ==
    /\ pc = "qstar"
    /\ arg.solver = "affine"
    /\ \A px \in Pixels(grow, gcol) : ~AffineSingular(w[px], p, pstar[px])
    /\ transformers' = Solved("affine")
    /\ pc' = "solved"
    /\ UNCHANGED <<arg, p, q, w, pstar, qstar, result>>

\* line 104: torch.linalg.inv raises
SolveAffineRaise ==
    /\ pc = "qstar"
    /\ arg.solver = "affine"
    /\ \E px \in Pixels(grow, gcol) : AffineSingular(w[px], p, pstar[px])
    /\ pc' = "raised"
    /\ UNCHANGED <<arg, p, q, w, pstar, qstar, transformers, result>>

\* lines 81-82 with solver = similarity_solver
SolveSimilarity ==
    /\ pc = "qstar"
    /\ arg.solver = "similarity"
    /\ transformers' = Solved("similarity")
    /\ pc' = "solved"
    /\ UNCHANGED <<arg, p, q, w, pstar, qstar, result>>

\* lines 81-82 with solver = rigid_solver
SolveRigid ==
    /\ pc = "qstar"
    /\ arg.solver = "rigid"
    /\ transformers' = Solved("rigid")
    /\ pc' = "solved"
    /\ UNCHANGED <<arg, p, q, w, pstar, qstar, result>>

\* lines 85-87
ClampStep ==
    /\ pc = "solved"
    /\ transformers' = [px \in Pixels(grow, gcol) |-> Clamp(transformers[px], grow, gcol)]
    /\ pc' = "clamped"
    /\ UNCHANGED <<arg, p, q, w, pstar, qstar, result>>

\* line 89: return transformers.long()
Return ==
    /\ pc = "clamped"
    /\ \E nanv \in NanToLong :
          result' = [px \in Pixels(grow, gcol) |->
                        <<Long(transformers[px][1], nanv), Long(transformers[px][2], nanv)>>]
    /\ pc' = "returned"
    /\ UNCHANGED <<arg, p, q, w, pstar, qstar, transformers>>

Next ==
    \/ Call
    \/ Swap
    \/ Weights
    \/ PStar
    \/ QStar
    \/ QStarRaise
    \/ SolveAffine
    \/ SolveAffineRaise
    \/ SolveSimilarity
    \/ SolveRigid
    \/ ClampStep
    \/ Return

Spec == Init /\ [][Next]_vars

\* ------------------------------------------------------------ properties
\* the caller's arguments meet the preconditions of the interface
\* (alpha, eps and the grid's dimensions are positive in every call modelled)
ValidInput == pc # "idle" /\ Len(arg.p) = Len(arg.q) /\ Len(arg.p) >= 1

Grid == Pixels(grow, gcol)

\* the raw mapped coordinate of a pixel, from the state the solver reads
Raw(px) == view_as_real(Apply(arg.solver, w[px], q, qstar[px], p, pstar[px], V(px)))

\* the selected solver's division is degenerate at the pixel
Degenerate(px) ==
    CASE arg.solver = "affine" -> AffineSingular(w[px], p, pstar[px])
      [] arg.solver = "similarity" -> Mu(w[px], p, pstar[px]) = R0
      [] arg.solver = "rigid" -> Mnum(w[px], q, qstar[px], p, pstar[px]) = C0

\* both centroids are computed and the solver is about to run
Centroids == pc = "qstar"

\* C1: the grid returned by a call with valid input holds in every cell an
\* integer pair (a, b) with 0 <= a <= rows-1 and 0 <= b <= cols-1.
C1_InRange ==
    (ValidInput /\ pc = "returned") =>
        \A px \in Grid : /\ result[px][1] \in 0..(grow - 1)
                         /\ result[px][2] \in 0..(gcol - 1)

\* C2: with p = q (n >= 1) the call returns, for each variant, the grid in
\* which every cell holds its own coordinate.
C2_Identity ==
    (ValidInput /\ arg.p = arg.q) =>
        /\ pc # "raised"
        /\ pc = "returned" => \A px \in Grid : result[px] = px

\* C3: with one control-point pair every solver yields the raw mapped
\* coordinate v + (p - q) at every pixel v.
C3_Translation ==
    (ValidInput /\ Len(arg.p) = 1) =>
        /\ pc # "raised"
        /\ pc = "solved" =>
              \A px \in Grid :
                  transformers[px] =
                      view_as_real(CVal(CAdd(V(px),
                          CSub(view_as_complex(arg.p)[1], view_as_complex(arg.q)[1]))))

\* C4: a call with valid input always returns, and at a pixel where the selected
\* solver is degenerate the output is the pixel itself.
C4_Fallback ==
    ValidInput =>
        /\ pc # "raised"
        /\ pc = "returned" => \A px \in Grid : Degenerate(px) => result[px] = px

\* C5: a call with invalid input runs no weight, centroid or solver step and
\* returns no grid.
C5_Rejected ==
    (pc # "idle" /\ ~ValidInput) =>
        /\ w = None /\ pstar = None /\ qstar = None /\ transformers = None
        /\ pc # "returned"

\* C6: at every pixel the weights of the n >= 1 control points are non-negative
\* and sum to 1, also where the pixel coincides with a control point.
C6_WeightsNormalized ==
    (w # None /\ ctrls >= 1) =>
        \A px \in Grid :
            /\ \A j \in 1..ctrls : w[px][j][1] >= 0
            /\ RSum(w[px]) = R1

\* a pixel lies on a control point, whose weight there is the largest but not all
C6_Witness ==
    /\ pc = "weights"
    /\ ctrls >= 2
    /\ \E px \in Grid : \E j, k \in 1..ctrls :
          /\ p[j] = V(px)
          /\ RLt(w[px][k], w[px][j])
          /\ RLt(R0, w[px][k])

\* the squared distance of the scalar pair t from the rational point c, as a
\* scalar: (a1 + b1/sqrt(n))^2 + (a2 + b2/sqrt(n))^2 with a = t.c - c, b = t.x
DistSq(t, c) ==
    LET a1 == RSub(t[1].c, c[1])
        a2 == RSub(t[2].c, c[2])
        b2 == RAdd(RMul(t[1].x, t[1].x), RMul(t[2].x, t[2].x))
        ab == RAdd(RMul(a1, t[1].x), RMul(a2, t[2].x))
    IN  [nan |-> FALSE,
         c |-> RAdd(RAdd(RMul(a1, a1), RMul(a2, a2)), RDiv(b2, t[1].n)),
         x |-> RAdd(ab, ab),
         n |-> t[1].n]

SEq(s, k) == SGeq(s, k) /\ SLeq(s, k)

\* C7: the rigid solver never scales: where Mnum # 0 the raw mapped coordinate
\* is finite and |mapped_v - qstar|^2 = |v - pstar|^2.
C7_RigidPurity ==
    (pc = "solved" /\ arg.solver = "rigid") =>
        \A px \in Grid :
            Mnum(w[px], q, qstar[px], p, pstar[px]) # C0 =>
                /\ ~transformers[px][1].nan
                /\ ~transformers[px][2].nan
                /\ SEq(DistSq(transformers[px], qstar[px]),
                       CAbs2(CSub(V(px), pstar[px])))

\* a rotation by an angle that is no multiple of a right angle, off the centroid
C7_Witness ==
    /\ pc = "solved"
    /\ arg.solver = "rigid"
    /\ \E px \in Grid :
          LET M == Mnum(w[px], q, qstar[px], p, pstar[px])
          IN  /\ M[1] # R0
              /\ M[2] # R0
              /\ V(px) # pstar[px]
              /\ Mu(w[px], p, pstar[px]) # R1

\* the forward formula mapped_v = (v - src*) T + dst* of one variant, T fitted
\* from the points src to the points dst with the weights of src
Forward(s, src, dst, v) ==
    LET wv == Normalize(RawWeights(src, v, arg.alpha, arg.eps))
    IN  Apply(s, wv, dst, Centroid(wv, dst), src, Centroid(wv, src), v)

\* C8: the weights and pstar come from the caller's target points q, qstar from
\* the caller's original points p, and the raw result is the forward formula
\* with the two point sets exchanged.
C8_RoleSwap ==
    ValidInput =>
        LET src == view_as_complex(arg.q)
            dst == view_as_complex(arg.p)
        IN  /\ pc = "weights" => w = WeightField(src, arg.alpha, arg.eps, grow, gcol)
            /\ pc = "pstar" => \A px \in Grid : pstar[px] = Centroid(w[px], src)
            /\ pc = "qstar" => \A px \in Grid : qstar[px] = Centroid(w[px], dst)
            /\ pc = "solved" =>
                  \A px \in Grid :
                      transformers[px] = view_as_real(Forward(arg.solver, src, dst, V(px)))

\* a solved call whose point sets differ and whose result is finite and moved
C8_Witness ==
    /\ pc = "solved"
    /\ ValidInput
    /\ arg.p # arg.q
    /\ \E px \in Grid :
          /\ ~transformers[px][1].nan
          /\ transformers[px] # view_as_real(CVal(V(px)))
          /\ pstar[px] # qstar[px]

\* the index the claim gives for a finite raw value r and the bound hi:
\* trunc(min(max(r, 0), hi))
IsClampTrunc(k, r, hi) ==
    /\ k \in 0..hi
    /\ ~SGeq(r, R0) => k = 0
    /\ ~SLeq(r, RInt(hi)) => k = hi
    /\ (SGeq(r, R0) /\ SLeq(r, RInt(hi))) => (SGeq(r, RInt(k)) /\ (k = hi \/ ~SGeq(r, RInt(k + 1))))

\* C9: a finite raw coordinate (r, c) is returned as
\* (trunc(min(max(r, 0), rows-1)), trunc(min(max(c, 0), cols-1))).
C9_ClampTrunc ==
    pc = "returned" =>
        \A px \in Grid :
            LET raw == Raw(px)
            IN  /\ ~raw[1].nan => IsClampTrunc(result[px][1], raw[1], grow - 1)
                /\ ~raw[2].nan => IsClampTrunc(result[px][2], raw[2], gcol - 1)

IsInt(r) == \E k \in (-Span(r))..Span(r) : SEq(r, RInt(k))

Bound(k) == IF k = 1 THEN grow - 1 ELSE gcol - 1

\* a non-square grid with a raw value above its bound, a raw value below 0 and
\* a fractional raw value within its bounds
C9_Witness ==
    /\ pc = "returned"
    /\ grow # gcol
    /\ \E px \in Grid, k \in 1..2 : ~Raw(px)[k].nan /\ ~SLeq(Raw(px)[k], RInt(Bound(k)))
    /\ \E px \in Grid, k \in 1..2 : ~Raw(px)[k].nan /\ ~SGeq(Raw(px)[k], R0)
    /\ \E px \in Grid, k \in 1..2 :
          /\ ~Raw(px)[k].nan
          /\ SGeq(Raw(px)[k], R0)
          /\ SLeq(Raw(px)[k], RInt(Bound(k)))
          /\ ~IsInt(Raw(px)[k])

\* the control points hold at least two distinct positions
TwoDistinct(cp) == \E j, k \in 1..Len(cp) : cp[j] # cp[k]

\* the control points lie on one line
Collinear(cp) ==
    \A i, j, k \in 1..Len(cp) :
        RMul(RSub(cp[j][1], cp[i][1]), RSub(cp[k][2], cp[i][2])) =
        RMul(RSub(cp[j][2], cp[i][2]), RSub(cp[k][1], cp[i][1]))

\* C10 as claimed: with at least two distinct (swapped) source positions, at
\* every pixel A is non-singular, mu is non-zero and Mnum is non-zero.
C10_Original ==
    (Centroids /\ ValidInput /\ TwoDistinct(p)) =>
        \A px \in Grid :
            /\ ~AffineSingular(w[px], p, pstar[px])
            /\ Mu(w[px], p, pstar[px]) # R0
            /\ Mnum(w[px], q, qstar[px], p, pstar[px]) # C0

\* C10 as amended: with at least two distinct (swapped) source positions, at
\* every pixel mu is non-zero, and A is singular exactly when the source points
\* lie on one line.
C10_Amended ==
    (Centroids /\ ValidInput /\ TwoDistinct(p)) =>
        \A px \in Grid :
            /\ Mu(w[px], p, pstar[px]) # R0
            /\ AffineSingular(w[px], p, pstar[px]) <=> Collinear(p)

\* three source points off one line, and target points that make Mnum vanish
C10_Witness ==
    /\ Centroids
    /\ ValidInput
    /\ ~Collinear(p)
    /\ \E px \in Grid :
          /\ ~AffineSingular(w[px], p, pstar[px])
          /\ Mnum(w[px], q, qstar[px], p, pstar[px]) = C0

====
